---- MODULE Spec2Model ----
(***************************************************************************)
(* login_example.cpp: the WMCAClient wrapper around wmca.dll, GetInput and *)
(* main.                                                                   *)
(*                                                                         *)
(* The process has a load count for wmca.dll (os.libRef); the library is   *)
(* mapped while the count is positive.  Every call into the Win32 API or   *)
(* into the vendor library, and every entry into a WMCAClient method, is   *)
(* appended to os.log.  A call through a function pointer whose library    *)
(* has been unmapped is undefined behaviour: it may return TRUE, return    *)
(* FALSE, or fault and end the process.                                    *)
(***************************************************************************)
EXTENDS Integers, Sequences, FiniteSets

VARIABLES
    pc,            \* position of main, or "client" / "destroyed" for the bare object
    client,        \* the WMCAClient object's fields
    os,            \* the process: library load count, export table, call log, fault flag
    server, portStr, port, userID, password, certPassword,   \* locals of main
    prompts,       \* the GetInput calls made so far: field, default, entered line, value
    retval,        \* the value of main's return statement
    exitCode,      \* "none" while running, then "0", "1", "abort" or "fault"
    nOps           \* number of operations applied to the bare object

vars == <<pc, client, os, server, portStr, port, userID, password, certPassword,
          prompts, retval, exitCode, nOps>>

mainLocals == <<server, portStr, port, userID, password, certPassword, prompts, retval>>

\* Bound on the number of operations applied to a bare WMCAClient object.
MaxOps == 4

----------------------------------------------------------------------------
\* The seven exported entry points, in the order LoadDLL resolves them.
Names == {"wmcaLoad", "wmcaFree", "wmcaSetServer", "wmcaSetPort",
          "wmcaIsConnected", "wmcaConnect", "wmcaDisconnect"}

AllNull == [n \in Names |-> FALSE]

\* WMCAClient::WMCAClient.  m_p[n] is TRUE when the slot for n is not NULL.
NewClient == [m_hDll |-> FALSE, m_p |-> AllNull, m_bConnected |-> FALSE]

NewProcess == [libRef |-> 0, exports |-> {}, log |-> <<>>, crashed |-> FALSE]

\* One log entry.  kind is "method" (entry into a WMCAClient method),
\* "vendor" (a call through one of the seven slots) or "os" (Win32).
\* live says whether wmca.dll was mapped when the call was made.
Entry(kind, op, args, live, ret) ==
    [kind |-> kind, op |-> op, args |-> args, live |-> live, ret |-> ret]

Logged(o, e) == [o EXCEPT !.log = Append(@, e)]

Enter(o, method) == Logged(o, Entry("method", method, <<>>, o.libRef > 0, "-"))

R(c, o, ret) == [c |-> c, o |-> o, ret |-> ret]

\* A call through a resolved slot.  While the library is mapped the vendor
\* code answers TRUE or FALSE; after it was unmapped the pointer dangles.
VendorCall(o, name, args) ==
    IF o.libRef > 0
    THEN { [o |-> Logged(o, Entry("vendor", name, args, TRUE, r)), ret |-> r]
             : r \in {"TRUE", "FALSE"} }
    ELSE { [o |-> [Logged(o, Entry("vendor", name, args, FALSE, r))
                     EXCEPT !.crashed = (r = "FAULT")],
            ret |-> r] : r \in {"TRUE", "FALSE", "FAULT"} }

\* FreeLibrary(m_hDll): one reference less; the library is unmapped at zero.
FreeLibrary(o) ==
    [Logged(o, Entry("os", "FreeLibrary", <<>>, o.libRef > 0, "TRUE"))
       EXCEPT !.libRef = IF @ > 0 THEN @ - 1 ELSE 0]

----------------------------------------------------------------------------
\* WMCAClient methods.  Each yields the set of possible results
\* [c |-> fields after, o |-> process after, ret |-> returned bool].
\* Nothing runs in a process that has faulted.

\* The export tables a file named wmca.dll is taken to have: all seven
\* names, all but one, only one, or none of them.
ExportTables ==
    {Names, {}} \cup {Names \ {n} : n \in Names} \cup {{n} : n \in Names}

\* LoadLibraryA("wmca.dll"): fails, or maps the library; a library that is
\* already mapped is returned again with one more reference.  exp is the
\* set of names the mapped file exports.
LoadLibraryOutcomes(o) ==
    IF o.libRef > 0
    THEN {[ok |-> TRUE, exp |-> o.exports]}
    ELSE {[ok |-> FALSE, exp |-> {}]} \cup {[ok |-> TRUE, exp |-> e] : e \in ExportTables}

LoadDLLWith(c, o, x) ==
    IF ~x.ok
    THEN R([c EXCEPT !.m_hDll = FALSE],
           Logged(o, Entry("os", "LoadLibraryA", <<>>, o.libRef > 0, "FALSE")),
           FALSE)
    ELSE LET o1 == [Logged(o, Entry("os", "LoadLibraryA", <<>>, TRUE, "TRUE"))
                      EXCEPT !.libRef = @ + 1, !.exports = x.exp]
             c1 == [c EXCEPT !.m_hDll = TRUE, !.m_p = [n \in Names |-> n \in x.exp]]
         IN  IF \E n \in Names : ~c1.m_p[n]
             THEN R([c1 EXCEPT !.m_hDll = FALSE], FreeLibrary(o1), FALSE)
             ELSE R(c1, o1, TRUE)

LoadDLL(c, o) ==
    IF o.crashed THEN {R(c, o, FALSE)}
    ELSE { LoadDLLWith(c, Enter(o, "LoadDLL"), x) : x \in LoadLibraryOutcomes(o) }

Load(c, o) ==
    IF o.crashed THEN {R(c, o, FALSE)}
    ELSE LET o0 == Enter(o, "Load")
         IN  IF ~c.m_p["wmcaLoad"] THEN {R(c, o0, FALSE)}
             ELSE { R(c, v.o, v.ret = "TRUE") : v \in VendorCall(o0, "wmcaLoad", <<>>) }

SetServer(c, o, szServer) ==
    IF o.crashed THEN {R(c, o, FALSE)}
    ELSE LET o0 == Enter(o, "SetServer")
         IN  IF ~c.m_p["wmcaSetServer"] THEN {R(c, o0, FALSE)}
             ELSE { R(c, v.o, v.ret = "TRUE")
                      : v \in VendorCall(o0, "wmcaSetServer", <<szServer>>) }

SetPort(c, o, nPort) ==
    IF o.crashed THEN {R(c, o, FALSE)}
    ELSE LET o0 == Enter(o, "SetPort")
         IN  IF ~c.m_p["wmcaSetPort"] THEN {R(c, o0, FALSE)}
             ELSE { R(c, v.o, v.ret = "TRUE")
                      : v \in VendorCall(o0, "wmcaSetPort", <<nPort>>) }

IsConnected(c, o) ==
    IF o.crashed THEN {R(c, o, FALSE)}
    ELSE LET o0 == Enter(o, "IsConnected")
         IN  IF ~c.m_p["wmcaIsConnected"] THEN {R(c, o0, FALSE)}
             ELSE { R(c, v.o, v.ret = "TRUE")
                      : v \in VendorCall(o0, "wmcaIsConnected", <<>>) }

\* The default media type "0" and user type "1" are passed as their first
\* characters; hWnd is NULL and dwMsg is 0.
Connect(c, o, szID, szPassword, szCertPW) ==
    IF o.crashed THEN {R(c, o, FALSE)}
    ELSE LET o0 == Enter(o, "Connect")
         IN  IF ~c.m_p["wmcaConnect"] THEN {R(c, o0, FALSE)}
             ELSE { R(IF v.ret = "TRUE" THEN [c EXCEPT !.m_bConnected = TRUE] ELSE c,
                      v.o, v.ret = "TRUE")
                      : v \in VendorCall(o0, "wmcaConnect",
                                         <<"0", "1", szID, szPassword, szCertPW>>) }

\* Disconnect with the flag cleared whatever wmcaDisconnect returns.
DisconnectAlwaysClears(c, o) ==
    IF o.crashed THEN {R(c, o, FALSE)}
    ELSE LET o0 == Enter(o, "Disconnect")
         IN  IF ~c.m_p["wmcaDisconnect"] THEN {R(c, o0, FALSE)}
             ELSE { R([c EXCEPT !.m_bConnected = FALSE], v.o, v.ret = "TRUE")
                      : v \in VendorCall(o0, "wmcaDisconnect", <<>>) }

Disconnect(c, o) ==
    IF o.crashed THEN {R(c, o, FALSE)}
    ELSE LET o0 == Enter(o, "Disconnect")
         IN  IF ~c.m_p["wmcaDisconnect"] THEN {R(c, o0, FALSE)}
             ELSE { R(IF v.ret = "TRUE" THEN [c EXCEPT !.m_bConnected = FALSE] ELSE c,
                      v.o, v.ret = "TRUE")
                      : v \in VendorCall(o0, "wmcaDisconnect", <<>>) }

Free(c, o) ==
    IF o.crashed THEN {R(c, o, FALSE)}
    ELSE LET o0 == Enter(o, "Free")
         IN  IF ~c.m_p["wmcaFree"] THEN {R(c, o0, FALSE)}
             ELSE { R(c, v.o, v.ret = "TRUE") : v \in VendorCall(o0, "wmcaFree", <<>>) }

\* The tail of Cleanup with the handle left set after FreeLibrary.
UnloadKeepsHandle(r) ==
    IF r.o.crashed \/ ~r.c.m_hDll THEN R(r.c, r.o, FALSE)
    ELSE R(r.c, FreeLibrary(r.o), FALSE)

\* The tail of Cleanup: unload the library if the handle is set.
Unload(r) ==
    IF r.o.crashed \/ ~r.c.m_hDll THEN R(r.c, r.o, FALSE)
    ELSE R([r.c EXCEPT !.m_hDll = FALSE], FreeLibrary(r.o), FALSE)

Cleanup(c, o) ==
    IF o.crashed THEN {R(c, o, FALSE)}
    ELSE LET o0 == Enter(o, "Cleanup")
             s1 == IF c.m_bConnected THEN Disconnect(c, o0) ELSE {R(c, o0, FALSE)}
             s2 == UNION { Free(r.c, r.o) : r \in s1 }
         IN  { Unload(r) : r \in s2 }

\* WMCAClient::~WMCAClient
Destructor(c, o) ==
    IF o.crashed THEN {R(c, o, FALSE)}
    ELSE Cleanup(c, Enter(o, "~WMCAClient"))

----------------------------------------------------------------------------
\* Console input.  A line is a sequence of characters.
Lines == {<<>>, <<"9">>, <<"x">>, <<"9", "x">>}

NoDefault == <<"<NULL>">>
DefaultServer == <<"1", "2", "7", ".", "0", ".", "0", ".", "1">>
DefaultPort == <<"9", "0", "0", "0">>

\* GetInput: the entered line, or the default when the line is empty and a
\* default was given.
GetInput(szDefault, input) ==
    IF input = <<>> /\ szDefault # NoDefault THEN szDefault ELSE input

Digit == [ch \in {"0", "1", "2", "3", "4", "5", "6", "7", "8", "9"} |->
            CASE ch = "0" -> 0 [] ch = "1" -> 1 [] ch = "2" -> 2 [] ch = "3" -> 3
              [] ch = "4" -> 4 [] ch = "5" -> 5 [] ch = "6" -> 6 [] ch = "7" -> 7
              [] ch = "8" -> 8 [] ch = "9" -> 9]

IsDigit(ch) == ch \in DOMAIN Digit

\* std::stoi on text without leading blanks or sign: it converts the longest
\* prefix of digits and throws std::invalid_argument when there is none.
RECURSIVE DigitPrefix(_, _)
DigitPrefix(s, acc) ==
    IF s = <<>> \/ ~IsDigit(Head(s)) THEN acc
    ELSE DigitPrefix(Tail(s), acc * 10 + Digit[Head(s)])

StoiThrows(s) == s = <<>> \/ ~IsDigit(Head(s))
Stoi(s) == DigitPrefix(s, 0)

----------------------------------------------------------------------------
\* main, one action per statement.

InitCommon ==
    /\ client = NewClient
    /\ os = NewProcess
    /\ server = <<>> /\ portStr = <<>> /\ port = 0
    /\ userID = <<>> /\ password = <<>> /\ certPassword = <<>>
    /\ prompts = <<>>
    /\ retval = "none"
    /\ exitCode = "none"
    /\ nOps = 0

Init == pc = "GetServer" /\ InitCommon

Prompt(field, szDefault, input) ==
    [field |-> field, default |-> szDefault, input |-> input,
     value |-> GetInput(szDefault, input)]

MainGetServer ==
    /\ pc = "GetServer"
    /\ \E input \in Lines :
         /\ server' = GetInput(DefaultServer, input)
         /\ prompts' = Append(prompts, Prompt("server", DefaultServer, input))
    /\ pc' = "GetPort"
    /\ UNCHANGED <<client, os, portStr, port, userID, password, certPassword,
                   retval, exitCode, nOps>>

MainGetPort ==
    /\ pc = "GetPort"
    /\ \E input \in Lines :
         /\ portStr' = GetInput(DefaultPort, input)
         /\ prompts' = Append(prompts, Prompt("port", DefaultPort, input))
    /\ pc' = "stoi"
    /\ UNCHANGED <<client, os, server, port, userID, password, certPassword,
                   retval, exitCode, nOps>>

\* int port = stoi(portStr); the exception is caught nowhere, so the
\* process is terminated.
MainStoi ==
    /\ pc = "stoi"
    /\ IF StoiThrows(portStr)
       THEN pc' = "exited" /\ exitCode' = "abort" /\ port' = port
       ELSE pc' = "GetUserID" /\ exitCode' = exitCode /\ port' = Stoi(portStr)
    /\ UNCHANGED <<client, os, server, portStr, userID, password, certPassword,
                   prompts, retval, nOps>>

MainGetUserID ==
    /\ pc = "GetUserID"
    /\ \E input \in Lines :
         /\ userID' = GetInput(NoDefault, input)
         /\ prompts' = Append(prompts, Prompt("userID", NoDefault, input))
    /\ pc' = "GetPassword"
    /\ UNCHANGED <<client, os, server, portStr, port, password, certPassword,
                   retval, exitCode, nOps>>

MainGetPassword ==
    /\ pc = "GetPassword"
    /\ \E input \in Lines :
         /\ password' = GetInput(NoDefault, input)
         /\ prompts' = Append(prompts, Prompt("password", NoDefault, input))
    /\ pc' = "GetCertPassword"
    /\ UNCHANGED <<client, os, server, portStr, port, userID, certPassword,
                   retval, exitCode, nOps>>

MainGetCertPassword ==
    /\ pc = "GetCertPassword"
    /\ \E input \in Lines :
         /\ certPassword' = GetInput(NoDefault, input)
         /\ prompts' = Append(prompts, Prompt("certPassword", NoDefault, input))
    /\ pc' = "CheckRequired"
    /\ UNCHANGED <<client, os, server, portStr, port, userID, password,
                   retval, exitCode, nOps>>

\* The required-input check; passing it constructs the client.
MainCheckRequired ==
    /\ pc = "CheckRequired"
    /\ IF userID = <<>> \/ password = <<>> \/ certPassword = <<>>
       THEN pc' = "exited" /\ retval' = "1" /\ exitCode' = "1"
       ELSE pc' = "LoadDLL" /\ retval' = retval /\ exitCode' = exitCode
    /\ client' = NewClient
    /\ UNCHANGED <<os, server, portStr, port, userID, password, certPassword,
                   prompts, nOps>>

\* A step of main after construction: the method's result r, then either
\* the next statement or return 1.
Proceed(r, ok, next) ==
    /\ client' = r.c
    /\ os' = r.o
    /\ IF ok THEN pc' = next /\ retval' = retval
             ELSE pc' = "dtor" /\ retval' = "1"
    /\ UNCHANGED <<server, portStr, port, userID, password, certPassword,
                   prompts, exitCode, nOps>>

MainLoadDLL ==
    /\ pc = "LoadDLL"
    /\ \E r \in LoadDLL(client, os) : Proceed(r, r.ret, "Load")

\* The module-init step with its result ignored.
MainLoadIgnoresResult ==
    /\ pc = "Load"
    /\ \E r \in Load(client, os) : Proceed(r, TRUE, "SetServer")

MainLoad ==
    /\ pc = "Load"
    /\ \E r \in Load(client, os) : Proceed(r, r.ret, "SetServer")

MainSetServer ==
    /\ pc = "SetServer"
    /\ \E r \in SetServer(client, os, server) :
         IF r.ret THEN Proceed(r, TRUE, "SetPort")
         ELSE \E f \in Free(r.c, r.o) : Proceed(f, FALSE, "SetPort")

MainSetPort ==
    /\ pc = "SetPort"
    /\ \E r \in SetPort(client, os, port) :
         IF r.ret THEN Proceed(r, TRUE, "Connect")
         ELSE \E f \in Free(r.c, r.o) : Proceed(f, FALSE, "Connect")

MainConnect ==
    /\ pc = "Connect"
    /\ \E r \in Connect(client, os, userID, password, certPassword) :
         IF r.ret THEN Proceed(r, TRUE, "IsConnected")
         ELSE \E f \in Free(r.c, r.o) : Proceed(f, FALSE, "IsConnected")

\* The answer of IsConnected only selects the message printed.
MainIsConnected ==
    /\ pc = "IsConnected"
    /\ \E r \in IsConnected(client, os) : Proceed(r, TRUE, "Sleep")

SleepMs == 5000

MainSleep ==
    /\ pc = "Sleep"
    /\ os' = Logged(os, Entry("os", "Sleep", <<SleepMs>>, os.libRef > 0, "-"))
    /\ pc' = "Disconnect"
    /\ UNCHANGED <<client, mainLocals, exitCode, nOps>>

\* The result of Disconnect is not looked at.
MainDisconnect ==
    /\ pc = "Disconnect"
    /\ \E r \in Disconnect(client, os) : Proceed(r, TRUE, "Cleanup")

\* client.Cleanup(); ... return 0;
MainCleanup ==
    /\ pc = "Cleanup"
    /\ \E r \in Cleanup(client, os) :
         /\ client' = r.c
         /\ os' = r.o
    /\ pc' = "dtor"
    /\ retval' = "0"
    /\ UNCHANGED <<server, portStr, port, userID, password, certPassword,
                   prompts, exitCode, nOps>>

\* Leaving main destroys client; the process then ends with main's return
\* value unless the destructor faulted.
MainDtor ==
    /\ pc = "dtor"
    /\ \E r \in Destructor(client, os) :
         /\ client' = r.c
         /\ os' = r.o
         /\ exitCode' = IF r.o.crashed THEN "fault" ELSE retval
    /\ pc' = "exited"
    /\ UNCHANGED <<mainLocals, nOps>>

Next ==
    \/ MainGetServer \/ MainGetPort \/ MainStoi
    \/ MainGetUserID \/ MainGetPassword \/ MainGetCertPassword
    \/ MainCheckRequired
    \/ MainLoadDLL \/ MainLoad \/ MainSetServer \/ MainSetPort \/ MainConnect
    \/ MainIsConnected \/ MainSleep \/ MainDisconnect \/ MainCleanup \/ MainDtor

Spec == Init /\ [][Next]_vars

----------------------------------------------------------------------------
\* A bare WMCAClient object driven through its public operations in any
\* order, MaxOps operations at most.

InitClient == pc = "client" /\ InitCommon

Args == {<<"x">>}

Apply(r) ==
    /\ client' = r.c
    /\ os' = r.o
    /\ nOps' = nOps + 1
    /\ UNCHANGED <<mainLocals, exitCode>>

CanCall == pc = "client" /\ ~os.crashed /\ nOps < MaxOps

OpLoadDLL == CanCall /\ pc' = pc /\ \E r \in LoadDLL(client, os) : Apply(r)
OpLoad == CanCall /\ pc' = pc /\ \E r \in Load(client, os) : Apply(r)
OpSetServer ==
    CanCall /\ pc' = pc /\ \E r \in SetServer(client, os, DefaultServer) : Apply(r)
OpSetPort ==
    CanCall /\ pc' = pc /\ \E r \in SetPort(client, os, Stoi(DefaultPort)) : Apply(r)
OpIsConnected == CanCall /\ pc' = pc /\ \E r \in IsConnected(client, os) : Apply(r)
OpConnect ==
    CanCall /\ pc' = pc
            /\ \E a \in Args : \E r \in Connect(client, os, a, a, a) : Apply(r)
OpDisconnect == CanCall /\ pc' = pc /\ \E r \in Disconnect(client, os) : Apply(r)
OpFree == CanCall /\ pc' = pc /\ \E r \in Free(client, os) : Apply(r)
OpCleanup == CanCall /\ pc' = pc /\ \E r \in Cleanup(client, os) : Apply(r)
OpDestructor ==
    CanCall /\ pc' = "destroyed" /\ \E r \in Destructor(client, os) : Apply(r)

NextClient ==
    \/ OpLoadDLL \/ OpLoad \/ OpSetServer \/ OpSetPort \/ OpIsConnected
    \/ OpConnect \/ OpDisconnect \/ OpFree \/ OpCleanup \/ OpDestructor

SpecClient == InitClient /\ [][NextClient]_vars

----------------------------------------------------------------------------
\* Reading the call log.

IsVendor(e) == e.kind = "vendor"
IsExtern(e) == e.kind # "method"

OpsOf(seq) == [i \in DOMAIN seq |-> seq[i].op]

VendorIdx == {i \in DOMAIN os.log : IsVendor(os.log[i])}

\* Number of calls made to an entry point or a Win32 function.
Calls(op) == Cardinality({i \in DOMAIN os.log : IsExtern(os.log[i]) /\ os.log[i].op = op})

\* Number of calls of op that returned ret.
CallsRet(op, ret) ==
    Cardinality({i \in DOMAIN os.log :
                   IsExtern(os.log[i]) /\ os.log[i].op = op /\ os.log[i].ret = ret})

MethodCalls(m) ==
    Cardinality({i \in DOMAIN os.log : os.log[i].kind = "method" /\ os.log[i].op = m})

LibraryLoaded == CallsRet("LoadLibraryA", "TRUE") > 0
LibraryAbsent == CallsRet("LoadLibraryA", "FALSE") > 0
AllResolved == LibraryLoaded /\ os.exports = Names
RequiredGiven ==
    Len(prompts) = 5 /\ userID # <<>> /\ password # <<>> /\ certPassword # <<>>
RequiredEmpty ==
    Len(prompts) = 5 /\ (userID = <<>> \/ password = <<>> \/ certPassword = <<>>)
EveryVendorCallSucceeded == \A i \in VendorIdx : os.log[i].ret = "TRUE"

FullSequence ==
    <<"wmcaLoad", "wmcaSetServer", "wmcaSetPort", "wmcaConnect", "wmcaIsConnected",
      "Sleep", "wmcaDisconnect", "wmcaFree", "FreeLibrary">>

\* The vendor calls, the wait and the unload, in the order they were made.
CallSequence ==
    OpsOf(SelectSeq(os.log,
                    LAMBDA e : IsVendor(e) \/ (e.kind = "os" /\ e.op # "LoadLibraryA")))

----------------------------------------------------------------------------
\* C1: on a run of main with all required inputs given, LoadLibrary
\* succeeding, all seven entry points resolved and every vendor call
\* returning success, the calls made are exactly wmcaLoad, wmcaSetServer,
\* wmcaSetPort, wmcaConnect, wmcaIsConnected, the wait, wmcaDisconnect,
\* wmcaFree, FreeLibrary, each once and in that order, so that FreeLibrary
\* is the last call and no entry point is invoked after it.
C1_LinearSequence ==
    (pc = "exited" /\ RequiredGiven /\ AllResolved /\ EveryVendorCallSucceeded)
        => CallSequence = FullSequence

\* C2: on every run of main, FreeLibrary has been called exactly once by
\* process exit if LoadLibrary succeeded, and is never called if LoadLibrary
\* failed or was never attempted; at no point has it been called twice.
C2_UnloadOnce ==
    /\ Calls("FreeLibrary") <= 1
    /\ Calls("FreeLibrary") > 0 => LibraryLoaded
    /\ pc = "exited" => Calls("FreeLibrary") = (IF LibraryLoaded THEN 1 ELSE 0)

\* C2 witness: a finished successful run, where Cleanup ran explicitly and
\* again from the destructor, with the library unloaded once.
C2_Witness ==
    /\ pc = "exited" /\ retval = "0"
    /\ MethodCalls("Cleanup") = 2
    /\ LibraryLoaded /\ Calls("FreeLibrary") = 1

FailableSteps ==
    {"wmcaLoad", "wmcaSetServer", "wmcaSetPort", "wmcaConnect", "wmcaDisconnect", "wmcaFree"}

AStepFailed ==
    \/ LibraryAbsent
    \/ LibraryLoaded /\ os.exports # Names
    \/ \E op \in FailableSteps : CallsRet(op, "FALSE") > 0

AllStepsSucceeded ==
    /\ AllResolved
    /\ \A op \in FailableSteps : CallsRet(op, "TRUE") > 0 /\ CallsRet(op, "FALSE") = 0

\* C3: main returns 0 only on a full successful sequence, and returns 1
\* whenever a step fails (library load, entry-point resolution, module-init,
\* set-server, set-port, authenticate, disconnect, module-release) or a
\* required input is empty.
C3_ExitCode ==
    pc = "exited" =>
        /\ retval = "0" => (RequiredGiven /\ AllStepsSucceeded)
        /\ (AStepFailed \/ RequiredEmpty) => retval = "1"

\* C4: if LoadLibrary succeeds but one of the seven names fails to resolve,
\* LoadDLL unloads the library and returns false, main exits with code 1,
\* and no vendor entry point is invoked at any point of the run, the
\* destructor's cleanup included.
C4_FailFast ==
    (LibraryLoaded /\ os.exports # Names) =>
        /\ Calls("FreeLibrary") = 1
        /\ ~client.m_hDll
        /\ VendorIdx = {}
        /\ pc \in {"dtor", "exited"}
        /\ retval = "1"
        /\ pc = "exited" => exitCode = "1"

FiveFields == <<"server", "port", "userID", "password", "certPassword">>

\* C5: main prompts for exactly five fields in the order server, port, user
\* ID, password, certificate password, and the value used for each is the
\* field's default when the entered line is empty and the field has one, and
\* the entered line otherwise.
C5_FivePrompts ==
    pc = "exited" =>
        /\ [i \in DOMAIN prompts |-> prompts[i].field] = FiveFields
        /\ \A i \in DOMAIN prompts :
             prompts[i].value =
                 IF prompts[i].input = <<>> /\ prompts[i].default # NoDefault
                 THEN prompts[i].default ELSE prompts[i].input
        /\ server = prompts[1].value /\ portStr = prompts[2].value
        /\ userID = prompts[3].value /\ password = prompts[4].value
        /\ certPassword = prompts[5].value

StepOps == <<"LoadLibraryA", "wmcaLoad", "wmcaSetServer", "wmcaSetPort", "wmcaConnect">>

\* The calls that attempt the library load, module-init, set-server,
\* set-port and authenticate, in the order they were made.
StepLog ==
    SelectSeq(os.log,
              LAMBDA e : IsExtern(e) /\ e.op \in {StepOps[k] : k \in DOMAIN StepOps})

\* C6: the required-input check, the library load with entry-point
\* resolution, module-init, set-server, set-port and authenticate are
\* attempted in that order, each only after the one before it succeeded;
\* wmcaIsConnected and wmcaDisconnect are invoked only after a successful
\* authenticate; an absent library or an empty required input leads to exit
\* without any vendor entry point being invoked.
C6_StopAtFirstFailure ==
    /\ Len(StepLog) <= Len(StepOps)
    /\ OpsOf(StepLog) = SubSeq(StepOps, 1, Len(StepLog))
    /\ \A i \in 1..(Len(StepLog) - 1) : StepLog[i].ret = "TRUE"
    /\ Len(StepLog) >= 2 => os.exports = Names
    /\ StepLog # <<>> => RequiredGiven
    /\ \A j \in VendorIdx :
         os.log[j].op \in {"wmcaIsConnected", "wmcaDisconnect"} =>
             \E i \in VendorIdx :
                 i < j /\ os.log[i].op = "wmcaConnect" /\ os.log[i].ret = "TRUE"
    /\ (LibraryAbsent \/ RequiredEmpty) => VendorIdx = {}

\* C6 witness: a finished run that stopped at a failed set-port, after
\* module-init and set-server succeeded.
C6_Witness ==
    /\ pc = "exited"
    /\ CallsRet("wmcaSetServer", "TRUE") = 1
    /\ CallsRet("wmcaSetPort", "FALSE") = 1
    /\ Calls("wmcaConnect") = 0
    /\ Calls("wmcaDisconnect") = 0

\* C7: on every run of main each of the seven vendor entry points is
\* invoked at most once, whatever the calls return.
C7_NoRetry == \A n \in Names : Calls(n) <= 1

\* C8: for any sequence of WMCAClient operations, whenever m_hDll is NULL
\* all seven function-pointer slots are NULL, and every call through a slot
\* is made while the library is loaded.
C8_NoCallIntoUnloaded ==
    /\ ~client.m_hDll => \A n \in Names : ~client.m_p[n]
    /\ \A i \in VendorIdx : os.log[i].live

\* C9: on every run of main, wmcaFree is invoked only if wmcaLoad was invoked
\* earlier in that run and returned success; when wmcaLoad returns failure
\* wmcaFree is never invoked.
C9_FreeOnlyAfterLoad ==
    /\ \A j \in VendorIdx :
         os.log[j].op = "wmcaFree" =>
             \E i \in VendorIdx :
                 i < j /\ os.log[i].op = "wmcaLoad" /\ os.log[i].ret = "TRUE"
    /\ CallsRet("wmcaLoad", "FALSE") > 0 => Calls("wmcaFree") = 0

\* Whether the most recent successful call among wmcaConnect and
\* wmcaDisconnect in a log is wmcaConnect.
LastSuccessIsConnect(log) ==
    LET ok == {i \in DOMAIN log :
                 /\ IsVendor(log[i])
                 /\ log[i].op \in {"wmcaConnect", "wmcaDisconnect"}
                 /\ log[i].ret = "TRUE"}
    IN  /\ ok # {}
        /\ log[CHOOSE i \in ok : \A k \in ok : k <= i].op = "wmcaConnect"

IsMethod(e, m) == e.kind = "method" /\ e.op = m

\* C10: m_bConnected starts false and is set to true only by a Connect whose
\* wmcaConnect returned success and to false only by a Disconnect whose
\* wmcaDisconnect returned success, so it is true exactly when the most
\* recent successful call among the two was Connect; Cleanup calls
\* Disconnect exactly when the flag is true.
C10_ConnectedFlag ==
    /\ client.m_bConnected = LastSuccessIsConnect(os.log)
    /\ \A i \in DOMAIN os.log :
         IsMethod(os.log[i], "Cleanup") =>
             ((i < Len(os.log) /\ IsMethod(os.log[i + 1], "Disconnect"))
                 <=> LastSuccessIsConnect(SubSeq(os.log, 1, i)))

\* C10 witness: Cleanup found the flag set, called Disconnect while the
\* library was loaded, and the successful wmcaDisconnect cleared the flag.
C10_Witness ==
    /\ ~client.m_bConnected
    /\ \E i \in DOMAIN os.log :
         /\ IsMethod(os.log[i], "Cleanup")
         /\ i + 2 <= Len(os.log)
         /\ IsMethod(os.log[i + 1], "Disconnect")
         /\ os.log[i + 2].op = "wmcaDisconnect" /\ os.log[i + 2].ret = "TRUE"
         /\ os.log[i + 2].live

====
